---- MODULE Spec2Model ----
(***************************************************************************)
(* The client-side task store (useTaskStore) of the asset platform: the    *)
(* task records, the push path (syncTaskFromEvent), the batch poll         *)
(* (syncTasks, an asynchronous request with a success and a failure        *)
(* continuation), the sweeper (clearOldTasks) and the bookkeeping actions. *)
(* Time is Date.now() in milliseconds.  A task's `id` is its key in        *)
(* `tasks`; its `mode` is an inert payload and is left out.                *)
(***************************************************************************)
EXTENDS Integers, FiniteSets, Sequences, TLC

VARIABLES tasks, lastSyncTime, selectedJobId, now, ticks, polls, last,
          updates, delivered, views, storage, signals, gone,
          page, sse, job, form, health

\* The views of one session (browser tabs): each view's in-memory store,
\* the snapshot persisted under 'task-storage' (a set: empty when the key
\* holds no value, else the one snapshot), the views with a storage
\* event waiting, and the ids some view has evicted or cleared.
replica == <<views, storage, signals, gone>>

\* The components around the store: TaskManager (hydration, the poll
\* timer), SSEProvider (the push connection), useGenerationJob (the
\* tracked job and its toasts), the generation form and HealthCheckManager.
shell == <<page, sse, job, form, health>>

vars == <<tasks, lastSyncTime, selectedJobId, now, ticks, polls, last,
          updates, delivered, views, storage, signals, gone,
          page, sse, job, form, health>>

(***************************************************************************)
(* Bounds of the model.                                                    *)
(***************************************************************************)
MaxTicks == 1
MaxPolls == 1
MaxRetries == 3

(***************************************************************************)
(* Program constants.                                                      *)
(***************************************************************************)
TASK_GC_THRESHOLD == 24 * 60 * 60 * 1000
TASK_PENDING_TIMEOUT == 1 * 60 * 60 * 1000
MAX_RETRY_COUNT == 3

TimedOutMsg == "Task timed out (stuck locally for > 1h)"
NotFoundMsg == "Job not found on server (possibly deleted)"

(***************************************************************************)
(* Value domains.  Undef is JavaScript's undefined (an absent optional     *)
(* field); NoTime is an absent or unparsable ISO timestamp.                *)
(***************************************************************************)
Ids == {"A", "B"}
\* The ids the main specification submits and addresses.
MainIds == {"A"}
NoId == "null"
TaskStatus == {"PENDING", "PROCESSING", "COMPLETED", "FAILED"}
Terminal == {"COMPLETED", "FAILED"}
NonTerminal == {"PENDING", "PROCESSING"}
Undef == "undefined"
NoTime == -1
\* What a server message says about a job: a result URL comes only with
\* COMPLETED and an error text only with FAILED, and either may be missing.
Payloads ==
    {[status |-> "PENDING", url |-> Undef, err |-> Undef],
     [status |-> "PROCESSING", url |-> Undef, err |-> Undef],
     [status |-> "COMPLETED", url |-> "url1", err |-> Undef],
     [status |-> "COMPLETED", url |-> Undef, err |-> Undef],
     [status |-> "FAILED", url |-> Undef, err |-> "err1"],
     [status |-> "FAILED", url |-> Undef, err |-> Undef]}

\* The instants at which anything happens: Date.now() moves along this
\* timeline.  A task written at one instant is past the 1h timeout at the
\* next and past the 24h horizon at the one after.
Instants == <<0,
              TASK_PENDING_TIMEOUT + 1,
              TASK_GC_THRESHOLD + TASK_PENDING_TIMEOUT + 2,
              2 * TASK_GC_THRESHOLD + TASK_PENDING_TIMEOUT + 3,
              3 * TASK_GC_THRESHOLD + TASK_PENDING_TIMEOUT + 4>>
\* Timestamps a server message may carry: none, or any instant of the
\* timeline, behind or ahead of the client's clock (the clocks are not one).
ServerTimes == {NoTime} \cup {Instants[i] : i \in 1..(MaxTicks + 1)}
Requests == SUBSET Ids

\* JavaScript truthiness of an optional string (x || y takes y when x is falsy).
Truthy(x) == x \notin {Undef, ""}

\* A push message as it arrives: event.data parses as JSON or does not, and
\* the parsed object has each field or lacks it.  NotAString stands for a
\* status that is present and is no string (a JSON number).
NotAString == "<1>"
RawStatuses == {Undef, "", "COMPLETED", "completed", "processing", "queued",
                NotAString}
Messages ==
    [parses : BOOLEAN, job_id : {Undef, "A"}, status : RawStatuses,
     result_url : {Undef, "url1"}]
NoMessage == [parses |-> FALSE, job_id |-> Undef, status |-> Undef,
              result_url |-> Undef]

Store == [tasks |-> tasks, lastSyncTime |-> lastSyncTime,
          selectedJobId |-> selectedJobId]

\* `last` names the operation that made the latest step: its target id, the
\* request and the returned ids of a poll (for the sweeper, the ids it went
\* through), which of the updates it carried
\* were terminal, which were older than the stored record, and which of the
\* tasks it addressed were PENDING or PROCESSING before the step, and the
\* view it ran in (0 where there is one view only).
NoUpdate == [jobId |-> NoId, status |-> Undef, resultUrl |-> Undef,
             error |-> Undef, updatedAt |-> NoTime]
NoOp == [op |-> "init", id |-> NoId, req |-> {}, ret |-> {}, term |-> {},
         stale |-> {}, nonterm |-> {}, view |-> 0, key |-> "",
         hasNewValue |-> FALSE, msg |-> NoMessage, u |-> NoUpdate]
WereNonTerminal(ids) ==
    {id \in ids \cap DOMAIN tasks : tasks[id].status \in NonTerminal}

(***************************************************************************)
(* parseServerTime: a missing or invalid timestamp is read as the clock.   *)
(***************************************************************************)
parseServerTime(iso, clock) == IF iso = NoTime THEN clock ELSE iso

(***************************************************************************)
(* addTask: the record written at submission.                              *)
(***************************************************************************)
NewTask(status, clock) ==
    [status |-> status, createdAt |-> clock, updatedAt |-> clock,
     retryCount |-> 0, isRead |-> TRUE, resultUrl |-> Undef, error |-> Undef]

Put(ts, id, rec) == [x \in DOMAIN ts \cup {id} |-> IF x = id THEN rec ELSE ts[x]]

addTask(st, id, status, clock) ==
    [st EXCEPT !.tasks = Put(st.tasks, id, NewTask(status, clock))]

(***************************************************************************)
(* syncTaskFromEvent: the push path.                                       *)
(***************************************************************************)
EventIsStale(existing, serverTime) == existing.updatedAt > serverTime

\* A variant that lets an unchanged update with a newer time through.
EventNoChangeUnlessNewer(existing, u) ==
    /\ existing.status = u.status
    /\ existing.resultUrl = u.resultUrl
    /\ existing.error = u.error
    /\ ~(u.updatedAt > existing.updatedAt)

EventNoChange(existing, u) ==
    /\ existing.status = u.status
    /\ existing.resultUrl = u.resultUrl
    /\ existing.error = u.error

\* A variant that notifies on every terminal update, whatever the stored status.
EventIsNewNotificationAlways(existing, u) ==
    u.status \in Terminal

EventIsNewNotification(existing, u) ==
    u.status \in Terminal /\ existing.status \notin Terminal

EventMerge(existing, u, serverTime) ==
    [existing EXCEPT
        !.status = u.status,
        !.resultUrl = IF Truthy(u.resultUrl) THEN u.resultUrl ELSE existing.resultUrl,
        !.error = IF u.error # Undef THEN u.error ELSE existing.error,
        !.isRead = IF EventIsNewNotification(existing, u) THEN FALSE ELSE existing.isRead,
        !.updatedAt = serverTime]

EventApplies(st, u, clock) ==
    /\ u.jobId \in DOMAIN st.tasks
    /\ ~EventIsStale(st.tasks[u.jobId], parseServerTime(u.updatedAt, clock))
    /\ ~EventNoChange(st.tasks[u.jobId], u)

\* A variant that tracks a job it hears of for the first time.
syncTaskFromEventUpsert(st, u, clock) ==
    IF u.jobId \in DOMAIN st.tasks THEN st
    ELSE [st EXCEPT !.tasks = Put(st.tasks, u.jobId, NewTask(u.status, clock))]

syncTaskFromEvent(st, u, clock) ==
    IF ~EventApplies(st, u, clock) THEN st
    ELSE LET existing == st.tasks[u.jobId]
             serverTime == parseServerTime(u.updatedAt, clock)
         IN [st EXCEPT
               !.tasks = Put(st.tasks, u.jobId, EventMerge(existing, u, serverTime)),
               !.selectedJobId =
                   IF EventIsNewNotification(existing, u) /\ u.status = "COMPLETED"
                   THEN u.jobId ELSE st.selectedJobId]

(***************************************************************************)
(* Bookkeeping actions of the store.                                       *)
(***************************************************************************)
setSelectedJobId(st, id) == [st EXCEPT !.selectedJobId = id]

markAsRead(st, id) ==
    [st EXCEPT !.tasks = Put(st.tasks, id, [st.tasks[id] EXCEPT !.isRead = TRUE])]

\* A variant that marks every task read, whatever its status.
markAllAsReadEvery(st) ==
    [st EXCEPT !.tasks = [id \in DOMAIN st.tasks |->
        [st.tasks[id] EXCEPT !.isRead = TRUE]]]

markAllAsRead(st) ==
    [st EXCEPT !.tasks = [id \in DOMAIN st.tasks |->
        IF st.tasks[id].status \in Terminal
        THEN [st.tasks[id] EXCEPT !.isRead = TRUE] ELSE st.tasks[id]]]

clearAllTasks(st) == [st EXCEPT !.tasks = <<>>]

(***************************************************************************)
(* clearOldTasks: the sweeper.                                             *)
(***************************************************************************)
\* A variant that evicts a task at exactly 24h.
isCompletedOldAtLimit(task, clock) ==
    (clock - task.updatedAt >= TASK_GC_THRESHOLD) /\ task.status \in Terminal

isCompletedOld(task, clock) ==
    (clock - task.updatedAt > TASK_GC_THRESHOLD) /\ task.status \in Terminal

\* A variant that times a task out at exactly 1h.
isPendingTimeoutAtLimit(task, clock) ==
    (clock - task.createdAt >= TASK_PENDING_TIMEOUT) /\ task.status \in NonTerminal

isPendingTimeout(task, clock) ==
    (clock - task.createdAt > TASK_PENDING_TIMEOUT) /\ task.status \in NonTerminal

\* A variant that resolves a timed-out task as COMPLETED.
TimedOutAsCompleted(task, clock) ==
    [task EXCEPT !.status = "COMPLETED", !.updatedAt = clock, !.isRead = FALSE]

TimedOut(task, clock) ==
    [task EXCEPT !.status = "FAILED", !.error = TimedOutMsg,
                 !.updatedAt = clock, !.isRead = FALSE]

clearOldTasks(st, clock) ==
    LET kept == {id \in DOMAIN st.tasks : ~isCompletedOld(st.tasks[id], clock)}
    IN [st EXCEPT !.tasks = [id \in kept |->
            IF isPendingTimeout(st.tasks[id], clock)
            THEN TimedOut(st.tasks[id], clock) ELSE st.tasks[id]]]

(***************************************************************************)
(* syncTasks: the batch poll.  The request is built from the store when    *)
(* the poll starts; the response, or the failure, is handled later against *)
(* the store as it is then.                                                *)
(***************************************************************************)
pendingIds(ts, clock) ==
    {id \in DOMAIN ts : /\ ts[id].status \in NonTerminal
                        /\ clock - ts[id].createdAt < TASK_GC_THRESHOLD}

\* A variant without the staleness guard: no entry is skipped.
BatchIsSkippedNever(existing, entry, serverTime) ==
    FALSE

BatchIsSkipped(existing, entry, serverTime) ==
    existing.updatedAt > serverTime /\ entry.status \notin Terminal

BatchIsNewNotification(existing, entry) ==
    existing.status \in NonTerminal /\ entry.status \in Terminal

BatchMerge(existing, entry, serverTime) ==
    [existing EXCEPT
        !.status = entry.status,
        !.resultUrl = IF Truthy(entry.result_url) THEN entry.result_url
                      ELSE existing.resultUrl,
        !.error = entry.error_message,
        !.updatedAt = serverTime,
        !.retryCount = 0,
        !.isRead = IF BatchIsNewNotification(existing, entry) THEN FALSE
                   ELSE existing.isRead]

BatchCreate(entry, serverTime, clock) ==
    [status |-> entry.status,
     createdAt |-> parseServerTime(entry.created_at, clock),
     updatedAt |-> serverTime, retryCount |-> 0,
     isRead |-> entry.status \notin Terminal,
     resultUrl |-> entry.result_url, error |-> entry.error_message]

BatchEntry(ts, id, entry, clock) ==
    LET serverTime == parseServerTime(entry.updated_at, clock)
    IN IF id \in DOMAIN ts
       THEN IF BatchIsSkipped(ts[id], entry, serverTime) THEN ts[id]
            ELSE BatchMerge(ts[id], entry, serverTime)
       ELSE BatchCreate(entry, serverTime, clock)

IsZombie(ts, req, resp, id) ==
    id \in req /\ id \notin DOMAIN resp /\ id \in DOMAIN ts

\* A variant that keeps the stored updatedAt when it is ahead of the clock.
ZombieGuarded(task, clock) ==
    [task EXCEPT !.status = "FAILED", !.error = NotFoundMsg,
                 !.updatedAt = IF task.updatedAt > clock THEN task.updatedAt ELSE clock,
                 !.isRead = FALSE]

Zombie(task, clock) ==
    [task EXCEPT !.status = "FAILED", !.error = NotFoundMsg,
                 !.updatedAt = clock, !.isRead = FALSE]

syncTasksSuccess(st, req, resp, clock) ==
    [st EXCEPT
        !.tasks = [id \in DOMAIN st.tasks \cup DOMAIN resp |->
            IF id \in DOMAIN resp THEN BatchEntry(st.tasks, id, resp[id], clock)
            ELSE IF IsZombie(st.tasks, req, resp, id) THEN Zombie(st.tasks[id], clock)
            ELSE st.tasks[id]],
        !.lastSyncTime = clock]

\* A variant that also flags the task as an unread notification.
RetryFailedUnread(task) ==
    [task EXCEPT !.retryCount = task.retryCount + 1, !.isRead = FALSE]

RetryFailed(task) ==
    LET newRetryCount == task.retryCount + 1
    IN [task EXCEPT !.retryCount = newRetryCount,
                    !.status = IF newRetryCount >= MAX_RETRY_COUNT THEN "FAILED"
                               ELSE task.status]

syncTasksFailure(st, req) ==
    [st EXCEPT !.tasks = [id \in DOMAIN st.tasks |->
        IF id \in req THEN RetryFailed(st.tasks[id]) ELSE st.tasks[id]]]

(***************************************************************************)
(* useUnreadCount: Object.values(tasks).filter(...).length.                *)
(***************************************************************************)
\* A variant of the filter that takes every unread task.
IsUnreadNotificationAnyStatus(task) ==
    ~task.isRead

IsUnreadNotification(task) ==
    task.status \in {"COMPLETED", "FAILED"} /\ ~task.isRead

\* The length of the filtered values, one task at a time.
RECURSIVE FilterLength(_, _)
FilterLength(ts, ids) ==
    IF ids = {} THEN 0
    ELSE LET id == CHOOSE x \in ids : TRUE
         IN (IF IsUnreadNotification(ts[id]) THEN 1 ELSE 0)
            + FilterLength(ts, ids \ {id})

useUnreadCount(ts) == FilterLength(ts, DOMAIN ts)

(***************************************************************************)
(* State machine.                                                          *)
(***************************************************************************)
NoPolls == [r \in Requests |-> 0]
InFlight == polls[{"A"}] + polls[{"B"}] + polls[{"A", "B"}]
\* The model stops counting failures beyond MaxRetries (the code has no cap).
RetriesLeft(req) ==
    \A id \in req \cap DOMAIN tasks : tasks[id].retryCount < MaxRetries

Views == {1, 2}
EmptyStore == [tasks |-> <<>>, lastSyncTime |-> 0, selectedJobId |-> NoId]
InitReplica ==
    /\ views = [v \in Views |-> EmptyStore]
    /\ storage = {EmptyStore}
    /\ signals = {}
    /\ gone = {}

\* useGenerationSessions: a prompt and a source image for each mode.  A
\* prompt is empty, blank or text; a source image is chosen or not.  The
\* code treats 'text-to-video' as it treats 'text-to-image' (every test is
\* mode === 'image-to-video'), and the model keeps one of the two.
GenerationMode == {"text-to-image", "image-to-video"}
Prompts == {"", " ", "p"}
INITIAL_SESSIONS ==
    [m \in GenerationMode |-> [prompt |-> "", sourceImage |-> FALSE]]

\* Before hydration: nothing rendered, no timer, no connection, no job;
\* the form is empty and no health check has started.
InitShell ==
    /\ page = [hasHydrated |-> FALSE, rendered |-> <<FALSE, EmptyStore>>,
               deps |-> <<FALSE, 0>>, pollIntervalRef |-> FALSE,
               intervals |-> 0]
    /\ sse = [mounted |-> FALSE, torn |-> FALSE, eventSourceRef |-> 0,
              open |-> {}, reconnectTimeout |-> 0, timers |-> <<>>,
              connects |-> 0, dropped |-> {}]
    /\ job = [currentJobId |-> NoId, deps |-> <<Undef, Undef, Undef, NoId>>,
              toasts |-> 0]
    /\ form = [currentMode |-> "text-to-image", sessions |-> INITIAL_SESSIONS,
               isSubmitting |-> FALSE, isStarting |-> FALSE,
               isOverLimit |-> FALSE, deps |-> <<"idle", "text-to-image">>,
               onGenerate |-> 0, startJob |-> 0]
    /\ health = [pathname |-> "/home", isHealthy |-> TRUE, mounted |-> FALSE,
                 retryCount |-> 0, timeoutId |-> 0, pending |-> <<>>,
                 timers |-> 0, inFlight |-> 0, streak |-> 0]

Init ==
    /\ InitReplica
    /\ InitShell
    /\ tasks = <<>>
    /\ lastSyncTime = 0
    /\ selectedJobId = NoId
    /\ now = 0
    /\ ticks = 0
    /\ polls = NoPolls
    /\ last = NoOp
    /\ updates = {}
    /\ delivered = {}

\* set(): the store's next state.
CommitStore(st) ==
    /\ tasks' = st.tasks
    /\ lastSyncTime' = st.lastSyncTime
    /\ selectedJobId' = st.selectedJobId

Commit(st) ==
    /\ UNCHANGED <<replica, shell>>
    /\ CommitStore(st)

\* Time passes: Date.now() moves to the next instant.
Tick ==
    /\ ticks < MaxTicks
    /\ ticks' = ticks + 1
    /\ now' = Instants[ticks + 2]
    /\ last' = [NoOp EXCEPT !.op = "tick"]
    /\ UNCHANGED <<tasks, lastSyncTime, selectedJobId, polls, updates, delivered>>
    /\ UNCHANGED <<replica, shell>>

\* A job id is submitted once (the server hands out fresh ids).  The model
\* uses the name of a job again once that job is gone from the store and from
\* every request in flight.
IsFresh(id) ==
    /\ id \notin DOMAIN tasks
    /\ \A req \in Requests : id \in req => polls[req] = 0

\* useGenerationJob.onSuccess: the status is the submission response's.
AddTask(ids) ==
    \E id \in ids, status \in TaskStatus :
        /\ IsFresh(id)
        /\ Commit(addTask(Store, id, status, now))
        /\ last' = [NoOp EXCEPT !.op = "addTask", !.id = id]
        /\ UNCHANGED <<now, ticks, polls, updates, delivered>>

PushInputs(ids) ==
    {[jobId |-> id, status |-> p.status, resultUrl |-> p.url, error |-> p.err,
      updatedAt |-> t] : id \in ids, p \in Payloads, t \in ServerTimes}

SyncTaskFromEvent(ids) ==
    \E u \in PushInputs(ids) :
        /\ Commit(syncTaskFromEvent(Store, u, now))
        /\ last' = [NoOp EXCEPT
              !.op = "push", !.id = u.jobId,
              !.nonterm = WereNonTerminal({u.jobId}),
              !.term = IF u.status \in Terminal THEN {u.jobId} ELSE {},
              !.stale = IF /\ u.jobId \in DOMAIN tasks
                           /\ EventIsStale(tasks[u.jobId], parseServerTime(u.updatedAt, now))
                        THEN {u.jobId} ELSE {}]
        /\ UNCHANGED <<now, ticks, polls, updates, delivered>>

SetSelectedJobId(ids) ==
    \E id \in ids \cup {NoId} :
        /\ Commit(setSelectedJobId(Store, id))
        /\ last' = [NoOp EXCEPT !.op = "select", !.id = id]
        /\ UNCHANGED <<now, ticks, polls, updates, delivered>>

\* Callers pass the id of a task they read from the store.
MarkAsRead ==
    \E id \in DOMAIN tasks :
        /\ Commit(markAsRead(Store, id))
        /\ last' = [NoOp EXCEPT !.op = "markAsRead", !.id = id]
        /\ UNCHANGED <<now, ticks, polls, updates, delivered>>

MarkAllAsRead ==
    /\ Commit(markAllAsRead(Store))
    /\ last' = [NoOp EXCEPT !.op = "markAllAsRead"]
    /\ UNCHANGED <<now, ticks, polls, updates, delivered>>

ClearAllTasks ==
    /\ Commit(clearAllTasks(Store))
    /\ last' = [NoOp EXCEPT !.op = "clearAllTasks"]
    /\ UNCHANGED <<now, ticks, polls, updates, delivered>>

ClearOldTasks ==
    /\ Commit(clearOldTasks(Store, now))
    /\ last' = [NoOp EXCEPT !.op = "clearOldTasks", !.req = DOMAIN tasks,
                            !.nonterm = WereNonTerminal(DOMAIN tasks)]
    /\ UNCHANGED <<now, ticks, polls, updates, delivered>>

\* syncTasks up to its await: nothing is sent when no task is pending.
SyncTasksStart ==
    /\ pendingIds(tasks, now) # {}
    /\ InFlight < MaxPolls
    /\ polls' = [polls EXCEPT ![pendingIds(tasks, now)] = @ + 1]
    /\ last' = [NoOp EXCEPT !.op = "pollStart", !.req = pendingIds(tasks, now)]
    /\ UNCHANGED <<tasks, lastSyncTime, selectedJobId, now, ticks, updates, delivered>>
    /\ UNCHANGED <<replica, shell>>

\* created_at is read only for an id that is not in the store.
Entries(id) ==
    {[status |-> p.status, updated_at |-> t, result_url |-> p.url,
      error_message |-> p.err, created_at |-> c] :
        p \in Payloads, t \in ServerTimes,
        c \in IF id \in DOMAIN tasks THEN {NoTime} ELSE {NoTime, 0}}

Responses(req) ==
    UNION {[S -> UNION {Entries(id) : id \in S}] : S \in SUBSET req}

SyncTasksSuccess ==
    \E req \in Requests :
        /\ polls[req] > 0
        /\ \E resp \in Responses(req) :
            /\ \A id \in DOMAIN resp : resp[id] \in Entries(id)
            /\ Commit(syncTasksSuccess(Store, req, resp, now))
            /\ last' = [NoOp EXCEPT
                  !.op = "pollOk", !.req = req, !.ret = DOMAIN resp,
                  !.nonterm = WereNonTerminal(req),
                  !.term = {id \in DOMAIN resp : resp[id].status \in Terminal},
                  !.stale = {id \in DOMAIN resp \cap DOMAIN tasks :
                      tasks[id].updatedAt > parseServerTime(resp[id].updated_at, now)}]
        /\ polls' = [polls EXCEPT ![req] = @ - 1]
        /\ UNCHANGED <<now, ticks, updates, delivered>>

SyncTasksFailure ==
    \E req \in Requests :
        /\ polls[req] > 0
        /\ RetriesLeft(req)
        /\ Commit(syncTasksFailure(Store, req))
        /\ last' = [NoOp EXCEPT !.op = "pollFail", !.req = req,
                                !.nonterm = WereNonTerminal(req)]
        /\ polls' = [polls EXCEPT ![req] = @ - 1]
        /\ UNCHANGED <<now, ticks, updates, delivered>>

Next ==
    \/ Tick
    \/ AddTask(MainIds)
    \/ SyncTaskFromEvent(MainIds)
    \/ SetSelectedJobId(MainIds)
    \/ MarkAsRead
    \/ MarkAllAsRead
    \/ ClearAllTasks
    \/ ClearOldTasks
    \/ SyncTasksStart
    \/ SyncTasksSuccess
    \/ SyncTasksFailure

Spec == Init /\ [][Next]_vars

(***************************************************************************)
(* Delivery of a fixed set of push updates to one task, in any order and   *)
(* with any repetitions.                                                   *)
(***************************************************************************)
MaxUpdates == 2

\* Timestamps of the updates of the set: two instants after the task's own.
SetTimes == {Instants[2], Instants[3]}

UpdateSets ==
    {S \in SUBSET {[jobId |-> "A", status |-> p.status, resultUrl |-> p.url,
                     error |-> p.err, updatedAt |-> t] :
                        p \in Payloads, t \in SetTimes} :
        Cardinality(S) \in 1..MaxUpdates}

InitDelivery ==
    /\ InitReplica
    /\ InitShell
    /\ \E status \in NonTerminal : tasks = Put(<<>>, "A", NewTask(status, 0))
    /\ lastSyncTime = 0
    /\ selectedJobId = NoId
    /\ now = Instants[3]
    /\ ticks = 2
    /\ polls = NoPolls
    /\ last = NoOp
    /\ updates \in UpdateSets
    /\ delivered = {}

Deliver ==
    \E u \in updates :
        /\ Commit(syncTaskFromEvent(Store, u, now))
        /\ delivered' = delivered \cup {u}
        /\ last' = [NoOp EXCEPT
              !.op = "push", !.id = u.jobId,
              !.nonterm = WereNonTerminal({u.jobId}),
              !.term = IF u.status \in Terminal THEN {u.jobId} ELSE {},
              !.stale = IF EventIsStale(tasks[u.jobId], parseServerTime(u.updatedAt, now))
                        THEN {u.jobId} ELSE {}]
        /\ UNCHANGED <<now, ticks, polls, updates>>

NextDelivery == Deliver

SpecDelivery == InitDelivery /\ [][NextDelivery]_vars

(***************************************************************************)
(* Two jobs and the failing poll: a poll in flight for one task while the  *)
(* other is submitted, pushed to or cleared.                               *)
(***************************************************************************)
NextPair ==
    \/ AddTask(Ids)
    \/ SyncTaskFromEvent(MainIds)
    \/ ClearAllTasks
    \/ SyncTasksStart
    \/ SyncTasksFailure

SpecPair == Init /\ [][NextPair]_vars

(***************************************************************************)
(* The sweeper against the clock: Date.now() passes the 1h timeout and the *)
(* 24h horizon of a record written at 0, stopping at each limit and one    *)
(* millisecond after it.                                                   *)
(***************************************************************************)
MaxSweepTicks == 4

SweepInstants == <<0,
                   TASK_PENDING_TIMEOUT,
                   TASK_PENDING_TIMEOUT + 1,
                   TASK_GC_THRESHOLD,
                   TASK_GC_THRESHOLD + 1,
                   TASK_GC_THRESHOLD + TASK_PENDING_TIMEOUT + 1>>

Advance ==
    /\ ticks < MaxSweepTicks
    /\ ticks' = ticks + 1
    /\ now' = SweepInstants[ticks + 2]
    /\ last' = [NoOp EXCEPT !.op = "tick"]
    /\ UNCHANGED <<tasks, lastSyncTime, selectedJobId, polls, updates, delivered>>
    /\ UNCHANGED <<replica, shell>>

NextSweep ==
    \/ Advance
    \/ AddTask(Ids)
    \/ SyncTaskFromEvent(MainIds)
    \/ ClearOldTasks

SpecSweep == Init /\ [][NextSweep]_vars

(***************************************************************************)
(* Two views of one session.  The store is wrapped in persist: every set   *)
(* of a view, also one that changes nothing, writes that view's whole      *)
(* state under 'task-storage'; a write that changes the stored value       *)
(* raises a storage event in the other view, which handles it later by     *)
(* rehydrating: the persisted fields replace its own.                      *)
(***************************************************************************)
MaxViewTicks == 1

\* Each instant is past the 24h horizon (and the 1h timeout) of the one before.
ViewInstants == <<0,
                  TASK_GC_THRESHOLD + 1,
                  2 * TASK_GC_THRESHOLD + 2,
                  3 * TASK_GC_THRESHOLD + 3>>

ViewsTick ==
    /\ ticks < MaxViewTicks
    /\ ticks' = ticks + 1
    /\ now' = ViewInstants[ticks + 2]
    /\ last' = [NoOp EXCEPT !.op = "tick"]
    /\ UNCHANGED <<tasks, lastSyncTime, selectedJobId, polls, updates, delivered>>
    /\ UNCHANGED <<replica, shell>>

\* The updates the views receive carry no timestamp of their own.
ViewPushInputs == {u \in PushInputs(MainIds) : u.updatedAt = NoTime}

Persist(v, st) ==
    /\ views' = [views EXCEPT ![v] = st]
    /\ storage' = {st}
    /\ signals' = IF {st} # storage THEN signals \cup (Views \ {v}) ELSE signals

\* The ids a sweeper run evicts.
Evicted(ts, clock) == {id \in DOMAIN ts : isCompletedOld(ts[id], clock)}

\* A job id is submitted once, in one view.
IsFreshInViews(id) ==
    /\ \A v \in Views : id \notin DOMAIN views[v].tasks
    /\ \A snapshot \in storage : id \notin DOMAIN snapshot.tasks
    /\ id \notin gone

ViewAddTask(v) ==
    \E id \in MainIds, status \in NonTerminal :
        /\ IsFreshInViews(id)
        /\ Persist(v, addTask(views[v], id, status, now))
        /\ last' = [NoOp EXCEPT !.op = "addTask", !.id = id, !.view = v]
        /\ UNCHANGED <<tasks, lastSyncTime, selectedJobId, now, ticks, polls,
                       updates, delivered, gone>>
        /\ UNCHANGED shell

\* Each view has its own event stream.
ViewSyncTaskFromEvent(v) ==
    \E u \in ViewPushInputs :
        /\ Persist(v, syncTaskFromEvent(views[v], u, now))
        /\ last' = [NoOp EXCEPT !.op = "push", !.id = u.jobId, !.view = v]
        /\ UNCHANGED <<tasks, lastSyncTime, selectedJobId, now, ticks, polls,
                       updates, delivered, gone>>
        /\ UNCHANGED shell

ViewClearOldTasks(v) ==
    /\ Persist(v, clearOldTasks(views[v], now))
    /\ gone' = gone \cup Evicted(views[v].tasks, now)
    /\ last' = [NoOp EXCEPT !.op = "clearOldTasks", !.view = v,
                            !.req = DOMAIN views[v].tasks]
    /\ UNCHANGED <<tasks, lastSyncTime, selectedJobId, now, ticks, polls,
                   updates, delivered>>
    /\ UNCHANGED shell

ViewClearAllTasks(v) ==
    /\ Persist(v, clearAllTasks(views[v]))
    /\ gone' = gone \cup DOMAIN views[v].tasks
    /\ last' = [NoOp EXCEPT !.op = "clearAllTasks", !.view = v]
    /\ UNCHANGED <<tasks, lastSyncTime, selectedJobId, now, ticks, polls,
                   updates, delivered>>
    /\ UNCHANGED shell

\* The keys of the storage events a view sees.
StorageKeys == {"task-storage", "other-key"}

\* handleStorageChange reloads for a 'task-storage' event with a new value.
\* A variant that reloads on an event for any key.
ShouldRehydrateAnyKey(key, hasNewValue) ==
    hasNewValue

ShouldRehydrate(key, hasNewValue) ==
    key = "task-storage" /\ hasNewValue

\* persist.rehydrate(): the stored snapshot, read when the event is handled,
\* is merged over the view's state; tasks, lastSyncTime and selectedJobId
\* are all stored, so each replaces the view's.  Nothing stored: no change.
rehydrate(st, stored) ==
    IF stored = {} THEN st ELSE CHOOSE snapshot \in stored : TRUE

\* handleStorageChange in view v for an event with this key and new value.
\* An event for 'task-storage' carries a value after another view's write
\* and none while the key is removed; one for another key comes at any time.
handleStorageChange(v, key, hasNewValue) ==
        /\ key = "task-storage" => IF hasNewValue THEN v \in signals
                                   ELSE storage = {}
        /\ IF ShouldRehydrate(key, hasNewValue)
           THEN /\ views' = [views EXCEPT ![v] = rehydrate(views[v], storage)]
                /\ last' = [NoOp EXCEPT !.op = "rehydrate", !.view = v,
                                        !.key = key,
                                        !.hasNewValue = hasNewValue,
                                        !.req = DOMAIN views[v].tasks]
           ELSE /\ views' = views
                /\ last' = [NoOp EXCEPT !.op = "storageEvent", !.view = v,
                                        !.key = key,
                                        !.hasNewValue = hasNewValue]
        /\ signals' = IF key = "task-storage" /\ hasNewValue
                      THEN signals \ {v} ELSE signals
        /\ UNCHANGED <<tasks, lastSyncTime, selectedJobId, now, ticks, polls,
                       updates, delivered, storage, gone>>
        /\ UNCHANGED shell

\* The event another view's write raises.
Rehydrate(v) == handleStorageChange(v, "task-storage", TRUE)

\* The key is removed from outside the store (site data cleared).
RemoveItem ==
    /\ storage # {}
    /\ storage' = {}
    /\ last' = [NoOp EXCEPT !.op = "removeItem"]
    /\ UNCHANGED <<tasks, lastSyncTime, selectedJobId, now, ticks, polls,
                   updates, delivered, views, signals, gone>>
    /\ UNCHANGED shell

NextViews ==
    \/ ViewsTick
    \/ \E v \in Views : ViewAddTask(v)
    \/ \E v \in Views : ViewSyncTaskFromEvent(v)
    \/ \E v \in Views : ViewClearOldTasks(v)
    \/ \E v \in Views : ViewClearAllTasks(v)
    \/ \E v \in Views : Rehydrate(v)

SpecViews == Init /\ [][NextViews]_vars

\* The views under every storage event, at one instant.
StorageEvent(v) ==
    \E key \in StorageKeys, hasNewValue \in BOOLEAN :
        handleStorageChange(v, key, hasNewValue)

NextReload ==
    \/ \E v \in Views : ViewAddTask(v)
    \/ \E v \in Views : ViewSyncTaskFromEvent(v)
    \/ \E v \in Views : ViewClearAllTasks(v)
    \/ \E v \in Views : StorageEvent(v)
    \/ RemoveItem

SpecReload == Init /\ [][NextReload]_vars

(***************************************************************************)
(* TaskManager.  The component renders again when the store's state or     *)
(* _hasHydrated changed; a render evaluates the activeTasksCount selector  *)
(* with the clock of that moment, and the polling effect runs when         *)
(* hasHydrated or that count differs from the render before.  page holds   *)
(* what was rendered last, the effect's dependencies, pollIntervalRef      *)
(* (TRUE when it holds a timer) and the number of live 30s intervals.      *)
(***************************************************************************)
activeTasksCount(ts, clock) ==
    Cardinality({id \in DOMAIN ts :
        /\ ts[id].status \in NonTerminal
        /\ clock - ts[id].createdAt < TASK_GC_THRESHOLD})

RenderPending == page.rendered # <<page.hasHydrated, Store>>

\* The polling effect's cleanup, run before the effect runs again.
pollCleanup(pg) ==
    IF pg.pollIntervalRef
    THEN [pg EXCEPT !.intervals = @ - 1, !.pollIntervalRef = FALSE]
    ELSE pg

\* The polling effect's body.
pollEffect(pg, hasHydrated, count) ==
    IF ~hasHydrated THEN pg
    ELSE IF count > 0
         THEN IF ~pg.pollIntervalRef
              THEN [pg EXCEPT !.intervals = @ + 1, !.pollIntervalRef = TRUE]
              ELSE pg
         ELSE IF pg.pollIntervalRef
              THEN [pg EXCEPT !.intervals = @ - 1, !.pollIntervalRef = FALSE]
              ELSE pg

\* What the store holds when hydration ends: nothing was persisted, or a
\* task left PENDING by an earlier session.
HydratedStores ==
    {Store,
     [Store EXCEPT !.tasks = Put(<<>>, "A", NewTask("PENDING", 0))]}

\* onRehydrateStorage: hydration ends.
Hydrate ==
    /\ ~page.hasHydrated
    /\ \E st \in HydratedStores : CommitStore(st)
    /\ page' = [page EXCEPT !.hasHydrated = TRUE]
    /\ last' = [NoOp EXCEPT !.op = "hydrate"]
    /\ UNCHANGED <<now, ticks, polls, updates, delivered, sse, job, form, health>>
    /\ UNCHANGED replica

\* A render and the effects it runs.  The first render after hydration runs
\* the first effect, clearOldTasks() and syncTasks(), before the polling
\* effect; the count both see is the one this render evaluated.
Render ==
    /\ RenderPending
    /\ LET count == activeTasksCount(tasks, now)
           deps == <<page.hasHydrated, count>>
           first == page.hasHydrated /\ ~page.deps[1]
           swept == IF first THEN clearOldTasks(Store, now) ELSE Store
           pg == IF deps = page.deps THEN page
                 ELSE pollEffect(pollCleanup(page), page.hasHydrated, count)
       IN  /\ CommitStore(swept)
           /\ polls' = IF first /\ pendingIds(swept.tasks, now) # {}
                           /\ InFlight < MaxPolls
                       THEN [polls EXCEPT ![pendingIds(swept.tasks, now)] = @ + 1]
                       ELSE polls
           /\ page' = [pg EXCEPT !.rendered = <<page.hasHydrated, Store>>,
                                 !.deps = deps]
    /\ last' = [NoOp EXCEPT !.op = "render"]
    /\ UNCHANGED <<now, ticks, updates, delivered, sse, job, form, health>>
    /\ UNCHANGED replica

\* The store's operations wait for a pending render: React runs the effects
\* of a store change before the next event is handled.
NextPage ==
    \/ Render
    \/ ~RenderPending /\ Hydrate
    \/ ~RenderPending /\ ViewsTick
    \/ ~RenderPending /\ AddTask(MainIds)
    \/ ~RenderPending /\ SyncTaskFromEvent(MainIds)
    \/ ~RenderPending /\ ClearAllTasks
    \/ ~RenderPending /\ page.hasHydrated /\ ClearOldTasks
    \/ ~RenderPending /\ SyncTasksStart
    \/ ~RenderPending /\ SyncTasksSuccess

SpecPage == Init /\ [][NextPage]_vars

(***************************************************************************)
(* SSEProvider.  Connections are numbered as they are made.  sse holds     *)
(* eventSourceRef.current (0: null), the connections that are open, the    *)
(* pending reconnect timers (by the connection whose error set them, with  *)
(* the delay that is left), the effect's reconnectTimeout (0: unset), and  *)
(* the connections that dropped a message.                                 *)
(***************************************************************************)
MaxConnects == 2
RECONNECT_DELAY == 5000

\* connect(): a new EventSource, kept in eventSourceRef.
connect(s) ==
    [s EXCEPT !.connects = @ + 1,
              !.eventSourceRef = s.connects + 1,
              !.open = @ \cup {s.connects + 1}]

\* A variant whose error handler schedules the reconnect and leaves the
\* connection open.
onerrorKeepOpen(s, es) ==
    [s EXCEPT !.reconnectTimeout = es,
              !.timers = Put(@, es, RECONNECT_DELAY)]

\* es.onerror: close, then setTimeout(connect, 5000).
onerror(s, es) ==
    [s EXCEPT !.open = @ \ {es},
              !.reconnectTimeout = es,
              !.timers = Put(@, es, RECONNECT_DELAY)]

\* The effect's cleanup: close eventSourceRef.current, clearTimeout.
cleanup(s) ==
    [s EXCEPT !.open = @ \ {s.eventSourceRef},
              !.timers = [t \in DOMAIN @ \ {s.reconnectTimeout} |-> @[t]],
              !.mounted = FALSE,
              !.torn = TRUE]

\* String.prototype.toUpperCase on the statuses of the model.
toUpperCase(x) ==
    CASE x = "completed" -> "COMPLETED"
      [] x = "processing" -> "PROCESSING"
      [] x = "queued" -> "QUEUED"
      [] OTHER -> x

\* JSON.parse throws on text that is no JSON, toUpperCase is no function of
\* a status that is no string: either ends in the catch block.
Throws(m) ==
    \/ ~m.parses
    \/ Truthy(m.job_id) /\ Truthy(m.status) /\ m.status = NotAString

\* A variant that forwards a message without status as PENDING.
onmessageDefaultStatus(st, m, clock) ==
    IF ~m.parses \/ ~Truthy(m.job_id) \/ m.status = NotAString THEN st
    ELSE syncTaskFromEvent(st,
             [jobId |-> m.job_id,
              status |-> IF Truthy(m.status) THEN toUpperCase(m.status)
                         ELSE "PENDING",
              resultUrl |-> m.result_url, error |-> Undef,
              updatedAt |-> NoTime], clock)

\* es.onmessage: the store after the message.
onmessage(st, m, clock) ==
    IF Throws(m) \/ ~(Truthy(m.job_id) /\ Truthy(m.status)) THEN st
    ELSE syncTaskFromEvent(st,
             [jobId |-> m.job_id, status |-> toUpperCase(m.status),
              resultUrl |-> m.result_url, error |-> Undef,
              updatedAt |-> NoTime], clock)

\* The message is no JSON, or lacks job_id or status.
Malformed(m) == ~m.parses \/ ~Truthy(m.job_id) \/ ~Truthy(m.status)

\* The provider mounts: the effect connects.
SseMount ==
    /\ ~sse.mounted /\ ~sse.torn
    /\ sse' = [connect(sse) EXCEPT !.mounted = TRUE]
    /\ last' = [NoOp EXCEPT !.op = "sseMount"]
    /\ UNCHANGED <<tasks, lastSyncTime, selectedJobId, now, ticks, polls,
                   updates, delivered, page, job, form, health>>
    /\ UNCHANGED replica

\* An open connection delivers a message.
SseMessage ==
    \E es \in sse.open, m \in Messages :
        /\ CommitStore(onmessage(Store, m, now))
        /\ sse' = IF Malformed(m) THEN [sse EXCEPT !.dropped = @ \cup {es}]
                  ELSE sse
        /\ last' = [NoOp EXCEPT !.op = "sseMessage", !.id = m.job_id,
                                !.msg = m, !.view = es]
        /\ UNCHANGED <<now, ticks, polls, updates, delivered, page, job, form, health>>
        /\ UNCHANGED replica

\* An open connection fails.  The model lets MaxConnects connections fail
\* (the code has no cap).
SseError ==
    \E es \in sse.open :
        /\ sse.connects <= MaxConnects
        /\ sse' = onerror(sse, es)
        /\ last' = [NoOp EXCEPT !.op = "sseError", !.view = es]
        /\ UNCHANGED <<tasks, lastSyncTime, selectedJobId, now, ticks, polls,
                       updates, delivered, page, job, form, health>>
        /\ UNCHANGED replica

\* Five seconds pass.
SseWait ==
    /\ \E t \in DOMAIN sse.timers : sse.timers[t] > 0
    /\ sse' = [sse EXCEPT !.timers =
                  [t \in DOMAIN @ |->
                      IF @[t] > RECONNECT_DELAY THEN @[t] - RECONNECT_DELAY
                      ELSE 0]]
    /\ last' = [NoOp EXCEPT !.op = "sseWait"]
    /\ UNCHANGED <<tasks, lastSyncTime, selectedJobId, now, ticks, polls,
                   updates, delivered, page, job, form, health>>
    /\ UNCHANGED replica

\* A reconnect timer that is due fires: connect().
SseReconnect ==
    \E t \in DOMAIN sse.timers :
        /\ sse.timers[t] = 0
        /\ sse' = connect([sse EXCEPT !.timers =
                               [x \in DOMAIN @ \ {t} |-> @[x]]])
        /\ last' = [NoOp EXCEPT !.op = "sseReconnect", !.view = t]
        /\ UNCHANGED <<tasks, lastSyncTime, selectedJobId, now, ticks, polls,
                       updates, delivered, page, job, form, health>>
        /\ UNCHANGED replica

\* The provider is torn down.
SseUnmount ==
    /\ sse.mounted
    /\ sse' = cleanup(sse)
    /\ last' = [NoOp EXCEPT !.op = "sseUnmount"]
    /\ UNCHANGED <<tasks, lastSyncTime, selectedJobId, now, ticks, polls,
                   updates, delivered, page, job, form, health>>
    /\ UNCHANGED replica

NextSse ==
    \/ AddTask(MainIds)
    \/ SseMount
    \/ SseMessage
    \/ SseError
    \/ SseWait
    \/ SseReconnect
    \/ SseUnmount

\* Timers fire: a pending delay passes and a due reconnect runs.
SpecSse ==
    Init /\ [][NextSse]_vars /\ WF_vars(SseWait) /\ WF_vars(SseReconnect)

(***************************************************************************)
(* Claims.                                                                 *)
(***************************************************************************)

\* C1: applying a push update twice in succession leaves the store (tasks,
\* selectedJobId, lastSyncTime) as it is after applying it once; the second
\* delivery reads the clock at the same instant or a millisecond later.
C1_PushIdempotent ==
    \A u \in PushInputs(MainIds) : \A later \in {now, now + 1} :
        syncTaskFromEvent(syncTaskFromEvent(Store, u, now), u, later)
            = syncTaskFromEvent(Store, u, now)

\* C2: once every update of the set has been delivered, whatever the order
\* and the repetitions, the task has the updatedAt of the update with the
\* latest serverTime and that update's status, or the terminal status of the
\* set when the set holds one.
Latest(S) == CHOOSE u \in S : \A v \in S : v.updatedAt <= u.updatedAt
TerminalOf(S) == {u.status : u \in S} \cap Terminal
Unambiguous(S) ==
    /\ \A u, v \in S : u # v => u.updatedAt # v.updatedAt
    /\ Cardinality(TerminalOf(S)) <= 1
ExpectedStatus(S) ==
    IF TerminalOf(S) # {} THEN CHOOSE x \in TerminalOf(S) : TRUE
    ELSE Latest(S).status
C2_OrderIndependent ==
    (delivered = updates /\ delivered # {} /\ Unambiguous(updates)) =>
        /\ tasks["A"].updatedAt = Latest(updates).updatedAt
        /\ tasks["A"].status = ExpectedStatus(updates)

\* C3: on the push path an update older than the stored updatedAt is
\* discarded when its status is PENDING or PROCESSING and applied (the task
\* takes the update's older timestamp) when its status is COMPLETED or FAILED.
C3_StaleTerminalApplied ==
    [][(last'.op = "push" /\ last'.stale # {}) =>
          IF last'.term = {}
          THEN UNCHANGED <<tasks, selectedJobId, lastSyncTime>>
          ELSE /\ last'.id \in DOMAIN tasks'
               /\ tasks'[last'.id].status \in Terminal
               /\ tasks'[last'.id].updatedAt < tasks[last'.id].updatedAt]_vars

\* The ids a step could have changed, and the kinds of write.
Both == DOMAIN tasks \cap DOMAIN tasks'
Decreased(id) == tasks'[id].updatedAt < tasks[id].updatedAt
\* The step applied a batch entry with a terminal status to id.
BatchTerminal(id) == last'.op = "pollOk" /\ id \in last'.ret \cap last'.term
\* The step handled a batch entry for id that is not terminal and is older
\* than the stored record.
BatchStaleNonTerminal(id) ==
    last'.op = "pollOk" /\ id \in (last'.ret \cap last'.stale) \ last'.term
\* The step wrote the client clock into id: zombie detection or the sweeper.
LocalStamp(id) ==
    \/ last'.op = "pollOk" /\ id \in last'.req \ last'.ret
    \/ last'.op = "clearOldTasks"

\* C4 as stated: in every step a task's updatedAt does not decrease unless
\* the step applies a batch entry with a terminal status, and a batch entry
\* that is not terminal and older than the stored updatedAt is skipped.
C4_MonotonicExceptBatchTerminal ==
    [][\A id \in Both :
          /\ Decreased(id) => BatchTerminal(id)
          /\ BatchStaleNonTerminal(id) => tasks'[id] = tasks[id]]_vars

\* C4 amended: updatedAt also decreases when the stored updatedAt, a server
\* timestamp, is ahead of the client clock and the step stamps the client
\* clock (zombie detection, sweeper timeout); it decreases in no other step,
\* and a stale non-terminal batch entry is skipped.
C4_Monotonic ==
    [][\A id \in Both :
          /\ Decreased(id) =>
                \/ BatchTerminal(id)
                \/ /\ LocalStamp(id)
                   /\ tasks[id].updatedAt > now
                   /\ tasks'[id].updatedAt = now
          /\ BatchStaleNonTerminal(id) => tasks'[id] = tasks[id]]_vars

\* A successful poll has just skipped an entry that was older than the record.
C4_Witness ==
    /\ last.op = "pollOk" /\ last.stale = {"A"} /\ last.term = {}
    /\ "A" \in DOMAIN tasks /\ tasks["A"].updatedAt > lastSyncTime

\* Whether the step delivered an update for id, by push or as a batch entry.
Updated(id) ==
    \/ last'.op = "push" /\ last'.id = id
    \/ last'.op = "pollOk" /\ id \in last'.ret

\* C5: create yields isRead = TRUE; an update (push or batch entry) that
\* takes the task from PENDING/PROCESSING to COMPLETED/FAILED sets
\* isRead = FALSE; a terminal update delivered to a task that is already
\* terminal and read leaves isRead = TRUE.
C5_NotificationExactness ==
    [][\A id \in DOMAIN tasks' :
          /\ (last'.op = "addTask" /\ last'.id = id) => tasks'[id].isRead
          /\ (/\ id \in DOMAIN tasks /\ Updated(id)
              /\ tasks[id].status \in NonTerminal
              /\ tasks'[id].status \in Terminal) => ~tasks'[id].isRead
          /\ (/\ id \in DOMAIN tasks /\ Updated(id) /\ id \in last'.term
              /\ tasks[id].status \in Terminal
              /\ tasks[id].isRead) => tasks'[id].isRead]_vars

\* A terminal update has just been delivered to a task that was terminal
\* already, and the task is read.
C5_Witness ==
    /\ last.op \in {"push", "pollOk"} /\ last.term = {"A"} /\ last.nonterm = {}
    /\ "A" \in DOMAIN tasks /\ tasks["A"].status \in Terminal /\ tasks["A"].isRead

\* C6: in every step isRead goes from TRUE to FALSE only if the status goes
\* from PENDING/PROCESSING to COMPLETED/FAILED in that step (so never on a
\* task that was already terminal), and a task that enters the store has
\* isRead = TRUE.
C6_IsReadTransition ==
    [][\A id \in DOMAIN tasks' :
          /\ (id \in DOMAIN tasks /\ tasks[id].isRead /\ ~tasks'[id].isRead) =>
                (tasks[id].status \in NonTerminal /\ tasks'[id].status \in Terminal)
          /\ id \notin DOMAIN tasks => tasks'[id].isRead]_vars

\* C7: when a poll succeeds, a requested id that is absent from the response
\* and is PENDING or PROCESSING becomes FAILED with the not-found reason,
\* updatedAt = now and isRead = FALSE, whatever its stored updatedAt; a
\* requested id that is in the response does not get the not-found reason.
C7_ZombieDetection ==
    [][last'.op = "pollOk" =>
          \A id \in last'.req \cap DOMAIN tasks :
              /\ (id \notin last'.ret /\ tasks[id].status \in NonTerminal) =>
                    /\ id \in DOMAIN tasks'
                    /\ tasks'[id] = [tasks[id] EXCEPT
                          !.status = "FAILED", !.error = NotFoundMsg,
                          !.updatedAt = now, !.isRead = FALSE]
              /\ (id \in last'.ret /\ tasks'[id].error = NotFoundMsg) =>
                    tasks'[id] = tasks[id]]_vars

\* A poll has just succeeded without an entry for A, which was PENDING or
\* PROCESSING and had been created at an earlier instant: A is FAILED as not
\* found, stamped with the client clock.
C7_Witness ==
    /\ last.op = "pollOk" /\ "A" \in last.req \ last.ret /\ "A" \in last.nonterm
    /\ "A" \in DOMAIN tasks
    /\ tasks["A"].status = "FAILED" /\ tasks["A"].error = NotFoundMsg
    /\ tasks["A"].updatedAt = now /\ ~tasks["A"].isRead
    /\ tasks["A"].createdAt < now

\* C8: when a poll succeeds, a requested id that is absent from the response
\* and is COMPLETED or FAILED by then is left unchanged.
C8_ZombieSparesTerminal ==
    [][last'.op = "pollOk" =>
          \A id \in (last'.req \ last'.ret) \cap DOMAIN tasks :
              tasks[id].status \in Terminal =>
                  (id \in DOMAIN tasks' /\ tasks'[id] = tasks[id])]_vars

\* An error text that names sync exhaustion: a text, and none of the texts
\* of the other failure causes.
IdentifiesSyncExhaustion(e) == e \notin {Undef, "", "err1", TimedOutMsg, NotFoundMsg}

\* C9: a failed poll that is the third in a row for a task (its counter of
\* failures since the last reset stands at 2) leaves the task FAILED with an
\* error text that names sync exhaustion; a first or second failure leaves
\* the status unchanged.
C9_RetryCeiling ==
    [][last'.op = "pollFail" =>
          \A id \in last'.req \cap DOMAIN tasks :
              /\ tasks[id].retryCount = MAX_RETRY_COUNT - 1 =>
                    /\ tasks'[id].status = "FAILED"
                    /\ IdentifiesSyncExhaustion(tasks'[id].error)
              /\ tasks[id].retryCount < MAX_RETRY_COUNT - 1 =>
                    tasks'[id].status = tasks[id].status]_vars

\* C10: after a successful poll every requested id that is still in the
\* store has retryCount = 0, also when its entry was skipped as stale.
C10_RetryReset ==
    [][last'.op = "pollOk" =>
          \A id \in last'.req \cap DOMAIN tasks' : tasks'[id].retryCount = 0]_vars

\* C11: a failed poll adds exactly 1 to the retryCount of every task of its
\* request that is still in the store and, where the new count is below the
\* ceiling, changes nothing else of the task; tasks outside the request,
\* selectedJobId and lastSyncTime keep their values and no task enters or
\* leaves the store.
C11_PollFailureFrame ==
    [][last'.op = "pollFail" =>
          /\ selectedJobId' = selectedJobId
          /\ lastSyncTime' = lastSyncTime
          /\ DOMAIN tasks' = DOMAIN tasks
          /\ \A id \in DOMAIN tasks :
                IF id \in last'.req
                THEN /\ tasks'[id].retryCount = tasks[id].retryCount + 1
                     /\ tasks'[id].retryCount < MAX_RETRY_COUNT =>
                           tasks'[id] = [tasks[id] EXCEPT !.retryCount = @ + 1]
                ELSE tasks'[id] = tasks[id]]_vars

\* A poll for A has just failed for the second time, A is still below the
\* ceiling, and B, submitted after the request was sent, is in
\* the store with its counter at 0.
C11_Witness ==
    /\ last.op = "pollFail" /\ last.req = {"A"}
    /\ DOMAIN tasks = {"A", "B"}
    /\ tasks["A"].retryCount = 2 /\ tasks["A"].status \in NonTerminal
    /\ tasks["B"].retryCount = 0 /\ tasks["B"].status \in NonTerminal

\* C12: a push update or a batch entry delivered to a task that is COMPLETED
\* or FAILED leaves it COMPLETED or FAILED, whatever the update's timestamp.
C12_TerminalAbsorbing ==
    [][\A id \in Both :
          (Updated(id) /\ tasks[id].status \in Terminal) =>
              tasks'[id].status \in Terminal]_vars

\* C13: a sweeper run turns every PENDING or PROCESSING task with
\* now - createdAt > 1h into FAILED with the timed-out reason, updatedAt = now
\* and isRead = FALSE, and keeps it in the store; a PENDING or PROCESSING
\* task with now - createdAt <= 1h is left as it is.
C13_Timeout ==
    [][last'.op = "clearOldTasks" =>
          \A id \in DOMAIN tasks :
              tasks[id].status \in NonTerminal =>
                  /\ id \in DOMAIN tasks'
                  /\ tasks'[id] =
                        IF now - tasks[id].createdAt > TASK_PENDING_TIMEOUT
                        THEN [tasks[id] EXCEPT
                                !.status = "FAILED", !.error = TimedOutMsg,
                                !.updatedAt = now, !.isRead = FALSE]
                        ELSE tasks[id]]_vars

\* The sweeper has just run over A and B, both PENDING or PROCESSING before:
\* A, created more than 1h ago, is FAILED as timed out; B, created within
\* the last hour, is still PENDING or PROCESSING.
C13_Witness ==
    /\ last.op = "clearOldTasks" /\ last.nonterm = {"A", "B"}
    /\ DOMAIN tasks = {"A", "B"}
    /\ tasks["A"].status = "FAILED" /\ tasks["A"].error = TimedOutMsg
    /\ tasks["A"].updatedAt = now /\ ~tasks["A"].isRead
    /\ now - tasks["A"].createdAt > TASK_PENDING_TIMEOUT
    /\ tasks["B"].status \in NonTerminal
    /\ now - tasks["B"].createdAt <= TASK_PENDING_TIMEOUT

\* C14: a sweeper run removes a task exactly when the task is COMPLETED or
\* FAILED and now - updatedAt > 24h: a terminal task with
\* now - updatedAt <= 24h stays, and a PENDING or PROCESSING task stays
\* whatever its age.
C14_Eviction ==
    [][last'.op = "clearOldTasks" =>
          /\ DOMAIN tasks' \subseteq DOMAIN tasks
          /\ \A id \in DOMAIN tasks :
                id \notin DOMAIN tasks' <=>
                    /\ tasks[id].status \in Terminal
                    /\ now - tasks[id].updatedAt > TASK_GC_THRESHOLD]_vars

\* The sweeper has just run over A and B: A, which was COMPLETED or FAILED,
\* is gone, and B, created more than 24h ago and PENDING or PROCESSING
\* before the run, is still there.
C14_Witness ==
    /\ last.op = "clearOldTasks" /\ last.req = {"A", "B"} /\ last.nonterm = {"B"}
    /\ DOMAIN tasks = {"B"}
    /\ now - tasks["B"].createdAt > TASK_GC_THRESHOLD

\* C15: in every reachable state every FAILED task has a non-empty error
\* text, and the texts of the sweeper's timeout and of zombie detection
\* differ (the retry ceiling is covered by the first part: it must leave a
\* text at all).
C15_FailedHasCause ==
    /\ \A id \in DOMAIN tasks :
          tasks[id].status = "FAILED" => Truthy(tasks[id].error)
    /\ TimedOutMsg # NotFoundMsg

\* C16: addTask with an id that is already in the store leaves the task's
\* record as it is.
C16_CreateDuplicateNoOp ==
    \A id \in DOMAIN tasks : \A status \in TaskStatus :
        addTask(Store, id, status, now).tasks[id] = tasks[id]

\* C17: a push update for an id that is not in the store leaves tasks,
\* selectedJobId and lastSyncTime unchanged.
C17_UnknownTaskGuard ==
    [][(last'.op = "push" /\ last'.id \notin DOMAIN tasks) =>
          UNCHANGED <<tasks, selectedJobId, lastSyncTime>>]_vars

\* A COMPLETED or FAILED push for A has just been handled after the store
\* was cleared with a poll for A still in flight: A is not in the store.
C17_Witness ==
    /\ last.op = "push" /\ last.id = "A" /\ last.term = {"A"}
    /\ tasks = <<>>
    /\ polls[{"A"}] > 0

\* C18: a task id enters the store only in an addTask step for that id; a
\* successful poll adds none (an entry for an id that is not in the store is
\* dropped).
C18_OnlyCreateAdds ==
    [][\A id \in DOMAIN tasks' \ DOMAIN tasks :
          last'.op = "addTask" /\ last'.id = id]_vars

\* C19: a task id leaves a view's store only in a sweeper step of that view
\* that evicts it (terminal and more than 24h old) or in the view's
\* clearAllTasks; a reload from storage removes no task, other than one that
\* some view has evicted or cleared (the reload then carries that deletion
\* over).
C19_DeletionPaths ==
    [][\A v \in Views :
          \A id \in DOMAIN views[v].tasks \ DOMAIN views'[v].tasks :
              \/ last'.view = v /\ last'.op = "clearAllTasks"
              \/ /\ last'.view = v /\ last'.op = "clearOldTasks"
                 /\ isCompletedOld(views[v].tasks[id], now)
              \/ last'.view = v /\ last'.op = "rehydrate" /\ id \in gone]_vars

\* C20: a push update or a batch entry delivered to a task whose resultUrl
\* (or error) is set leaves it set; an update without the field keeps the
\* stored value.
C20_PayloadOnlyFilledIn ==
    [][\A id \in Both :
          Updated(id) =>
              /\ Truthy(tasks[id].resultUrl) => Truthy(tasks'[id].resultUrl)
              /\ Truthy(tasks[id].error) => Truthy(tasks'[id].error)]_vars

\* The step delivered an update for id that was applied (the record changed)
\* and whose status is COMPLETED.
AppliedCompleted(id) ==
    /\ id \in Both /\ Updated(id)
    /\ tasks'[id] # tasks[id]
    /\ tasks'[id].status = "COMPLETED"

\* C21: a step that applies a COMPLETED update to a task, by push or as a
\* batch entry, sets selectedJobId to that task's id; a push or a successful
\* poll that applies no COMPLETED update leaves selectedJobId unchanged.
C21_AutoFocus ==
    [][last'.op \in {"push", "pollOk"} =>
          /\ \A id \in Both : AppliedCompleted(id) => selectedJobId' = id
          /\ (\A id \in Both : ~AppliedCompleted(id)) =>
                selectedJobId' = selectedJobId]_vars

\* C23: once hydrated and rendered, a 30s poll interval is live exactly
\* when some task is PENDING or PROCESSING and was created less than 24h
\* ago; at most one interval is live, and none before hydration.
C23_PollTimer ==
    /\ page.intervals <= 1
    /\ ~page.hasHydrated => page.intervals = 0
    /\ page.hasHydrated /\ ~RenderPending =>
          (page.intervals = 1 <=> activeTasksCount(tasks, now) > 0)

(***************************************************************************)
(* The store over a long time.  The clock moves in steps longer than the   *)
(* 24h horizon, and the sweeper's 60s interval fires within each: the      *)
(* clock takes its next step from a store the sweeper has gone through.    *)
(* The sweeper keeps firing and time keeps passing (fairness on both).     *)
(* Submissions and push messages arrive only while two more steps of the   *)
(* clock are to come, so that finitely many arrive and the horizon of the  *)
(* last one is reached.                                                    *)
(***************************************************************************)
MaxLiveTicks == 2

LiveInstant(i) == i * (TASK_GC_THRESHOLD + 1)

LiveTick ==
    /\ ticks < MaxLiveTicks
    /\ clearOldTasks(Store, now) = Store
    /\ ticks' = ticks + 1
    /\ now' = LiveInstant(ticks + 1)
    /\ last' = [NoOp EXCEPT !.op = "tick"]
    /\ UNCHANGED <<tasks, lastSyncTime, selectedJobId, polls, updates, delivered>>
    /\ UNCHANGED <<replica, shell>>

UpdatesArrive == ticks + 2 <= MaxLiveTicks

NextLive ==
    \/ LiveTick
    \/ ClearOldTasks
    \/ ClearAllTasks
    \/ SseMount
    \/ UpdatesArrive /\ AddTask(MainIds)
    \/ UpdatesArrive /\ SseMessage

SpecLive ==
    Init /\ [][NextLive]_vars /\ SF_vars(LiveTick) /\ WF_vars(ClearOldTasks)

\* C28: a sweeper run fails every PENDING or PROCESSING task created more
\* than 1h before, and a task that is PENDING or PROCESSING is, later on,
\* COMPLETED or FAILED or gone from the store.
C28_EveryJobResolves ==
    /\ [][last'.op = "clearOldTasks" =>
             \A id \in DOMAIN tasks :
                tasks[id].status \in NonTerminal
                /\ now - tasks[id].createdAt > TASK_PENDING_TIMEOUT
                => id \in DOMAIN tasks' /\ tasks'[id].status = "FAILED"]_vars
    /\ \A id \in MainIds :
          (id \in DOMAIN tasks /\ tasks[id].status \in NonTerminal)
          ~> (id \notin DOMAIN tasks \/ tasks[id].status \in Terminal)

\* C29: a task in the store is, later on, gone from the store.
C29_BoundedHorizon ==
    \A id \in MainIds : (id \in DOMAIN tasks) ~> (id \notin DOMAIN tasks)

\* What holds of the two: both, in the behaviours whose statuses stay
\* within the four values.
ResolvesWithinDomain ==
    [](\A id \in DOMAIN tasks : tasks[id].status \in TaskStatus)
        => \A id \in MainIds :
              /\ (id \in DOMAIN tasks /\ tasks[id].status \in NonTerminal)
                 ~> (id \notin DOMAIN tasks \/ tasks[id].status \in Terminal)
              /\ (id \in DOMAIN tasks) ~> (id \notin DOMAIN tasks)

(***************************************************************************)
(* useGenerationJob in view 1 of two views.  job holds currentJobId, the   *)
(* notification effect's dependencies at the render before, and the        *)
(* number of toasts shown.                                                 *)
(***************************************************************************)
MaxToasts == 2

\* taskStatus, taskIsRead, taskError and currentJobId as a render sees them.
JobDeps(st, id) ==
    IF id \in DOMAIN st.tasks
    THEN <<st.tasks[id].status,
           IF st.tasks[id].isRead THEN "true" ELSE "false",
           st.tasks[id].error, id>>
    ELSE <<Undef, Undef, Undef, id>>

JobEffectPending == JobDeps(views[1], job.currentJobId) # job.deps

\* The notification effect shows a toast for a terminal, unread task.
Toasts(st, id) ==
    /\ id # NoId
    /\ id \in DOMAIN st.tasks
    /\ st.tasks[id].status \in Terminal
    /\ ~st.tasks[id].isRead

\* mutation.onSuccess in view 1: the job is tracked and added to the store.
JobOnSuccess ==
    \E id \in MainIds, status \in NonTerminal :
        /\ IsFreshInViews(id)
        /\ Persist(1, addTask(views[1], id, status, now))
        /\ job' = [job EXCEPT !.currentJobId = id]
        /\ last' = [NoOp EXCEPT !.op = "addTask", !.id = id, !.view = 1]
        /\ UNCHANGED <<tasks, lastSyncTime, selectedJobId, now, ticks, polls,
                       updates, delivered, gone, page, sse, form, health>>

\* The notification effect runs when one of its dependencies changed.
JobEffect ==
    /\ JobEffectPending
    /\ job.toasts < MaxToasts
    /\ IF Toasts(views[1], job.currentJobId)
       THEN /\ Persist(1, markAsRead(views[1], job.currentJobId))
            /\ job' = [job EXCEPT !.toasts = @ + 1,
                                  !.deps = JobDeps(views[1], job.currentJobId)]
       ELSE /\ UNCHANGED <<views, storage, signals>>
            /\ job' = [job EXCEPT !.deps = JobDeps(views[1], job.currentJobId)]
    /\ last' = [NoOp EXCEPT !.op = "jobEffect", !.id = job.currentJobId,
                            !.view = 1]
    /\ UNCHANGED <<tasks, lastSyncTime, selectedJobId, now, ticks, polls,
                   updates, delivered, gone, page, sse, form, health>>

\* An event is handled once the effects of the one before have run.
NextJob ==
    \/ JobEffect
    \/ ~JobEffectPending /\ JobOnSuccess
    \/ ~JobEffectPending /\ \E v \in Views : ViewSyncTaskFromEvent(v)
    \/ ~JobEffectPending /\ \E v \in Views : Rehydrate(v)

SpecJob == Init /\ [][NextJob]_vars

\* C27: the notification effect shows one toast, and marks the task read,
\* when the tracked task is COMPLETED or FAILED and unread; a toast is shown
\* only by that effect, one at a time, and only when the task's status has
\* just changed (no toast again for a status already notified).
C27_ToastOnce ==
    [][/\ last'.op = "jobEffect" /\ Toasts(views[1], job.currentJobId) =>
             /\ job'.toasts = job.toasts + 1
             /\ views'[1].tasks[job.currentJobId].isRead
       /\ job'.toasts # job.toasts =>
             /\ last'.op = "jobEffect"
             /\ job'.toasts = job.toasts + 1
             /\ job.deps[1] # views[1].tasks[job.currentJobId].status]_vars

\* C24: an error of the push connection closes it and, the provider staying
\* mounted, a new connection is made, whatever the number of connections
\* that failed before, and not before the 5s delay has passed; never are
\* two connections open; after the teardown no connection is made.
C24_Reconnect ==
    /\ [](Cardinality(sse.open) <= 1)
    /\ [][/\ last'.op = "sseError" => last'.view \notin sse'.open
          /\ last'.op = "sseReconnect" => sse.timers[last'.view] = 0
          /\ sse.torn => sse'.connects = sse.connects]_vars
    /\ \A es \in 1..MaxConnects :
          (es \in DOMAIN sse.timers) ~> (sse.connects > es \/ sse.torn)

\* A second connection failed and a third stands in its place.
C24_Witness ==
    /\ sse.connects > MaxConnects
    /\ sse.open = {sse.connects}
    /\ sse.mounted

\* The update es.onmessage hands to syncTaskFromEvent for message m.
Forwarded(m) ==
    [jobId |-> m.job_id, status |-> toUpperCase(m.status),
     resultUrl |-> m.result_url, error |-> Undef, updatedAt |-> NoTime]

\* C25: a push message that is no JSON, or lacks job_id or status, changes
\* neither the store nor the connection (it stays open, no reconnect is
\* scheduled); a message with both fields is handed to syncTaskFromEvent,
\* also on a connection that dropped a message before.
C25_MalformedDropped ==
    [][last'.op = "sseMessage" =>
          IF Malformed(last'.msg)
          THEN /\ UNCHANGED <<tasks, selectedJobId, lastSyncTime>>
               /\ sse'.open = sse.open
               /\ sse'.eventSourceRef = sse.eventSourceRef
               /\ sse'.timers = sse.timers
          ELSE last'.msg.status # NotAString =>
                  /\ tasks' = syncTaskFromEvent(Store, Forwarded(last'.msg), now).tasks
                  /\ selectedJobId' =
                        syncTaskFromEvent(Store, Forwarded(last'.msg), now).selectedJobId
                  /\ sse' = sse]_vars

\* A connection that dropped a message delivered a COMPLETED message with a
\* result URL, and the task has both.
C25_Witness ==
    /\ last.op = "sseMessage"
    /\ ~Malformed(last.msg)
    /\ last.view \in sse.dropped
    /\ last.view \in sse.open
    /\ last.id \in DOMAIN tasks
    /\ tasks[last.id].status = "COMPLETED"
    /\ tasks[last.id].resultUrl = "url1"

\* C26: every stored task's status is one of PENDING, PROCESSING, COMPLETED
\* and FAILED, whatever status strings the push messages carry.
C26_StatusDomain ==
    \A id \in DOMAIN tasks : tasks[id].status \in TaskStatus

\* C30: unreadCount is the number of tasks that are COMPLETED or FAILED and
\* unread; taking the PENDING and PROCESSING tasks out of the store, read or
\* unread, leaves it the same.
C30_UnreadCount ==
    /\ useUnreadCount(tasks) =
          Cardinality({id \in DOMAIN tasks :
              tasks[id].status \in Terminal /\ tasks[id].isRead = FALSE})
    /\ useUnreadCount(tasks) =
          useUnreadCount([id \in {x \in DOMAIN tasks :
                                    tasks[x].status \notin NonTerminal}
                            |-> tasks[id]])

\* One task is terminal and unread, another is PENDING or PROCESSING and
\* unread, and unreadCount is 1.
C30_Witness ==
    /\ \E id \in DOMAIN tasks :
          tasks[id].status \in Terminal /\ ~tasks[id].isRead
    /\ \E id \in DOMAIN tasks :
          tasks[id].status \in NonTerminal /\ ~tasks[id].isRead
    /\ useUnreadCount(tasks) = 1

\* C31: a sweeper run makes no task COMPLETED, leaves as it is every task
\* that is neither terminal with now - updatedAt > 24h nor PENDING or
\* PROCESSING with now - createdAt > 1h, and leaves selectedJobId and
\* lastSyncTime as they are.
C31_SweeperFrame ==
    [][last'.op = "clearOldTasks" =>
          /\ \A id \in DOMAIN tasks' :
                tasks'[id].status = "COMPLETED" =>
                    id \in DOMAIN tasks /\ tasks[id].status = "COMPLETED"
          /\ \A id \in DOMAIN tasks :
                (/\ ~(/\ tasks[id].status \in Terminal
                       /\ now - tasks[id].updatedAt > TASK_GC_THRESHOLD)
                 /\ ~(/\ tasks[id].status \in NonTerminal
                       /\ now - tasks[id].createdAt > TASK_PENDING_TIMEOUT))
                => id \in DOMAIN tasks' /\ tasks'[id] = tasks[id]
          /\ selectedJobId' = selectedJobId
          /\ lastSyncTime' = lastSyncTime]_vars

\* The sweeper has just run with A selected: A, COMPLETED within the last
\* 24h, is still COMPLETED, and B has been timed out.
C31_Witness ==
    /\ last.op = "clearOldTasks" /\ last.req = {"A", "B"}
    /\ selectedJobId = "A"
    /\ DOMAIN tasks = {"A", "B"}
    /\ tasks["A"].status = "COMPLETED"
    /\ now - tasks["A"].updatedAt <= TASK_GC_THRESHOLD
    /\ tasks["B"].status = "FAILED" /\ tasks["B"].error = TimedOutMsg
    /\ tasks["B"].updatedAt = now

(***************************************************************************)
(* The generation form: GenerationContainer with useGenerationSessions and *)
(* useGenerationJob, GenerationInput and the quota store.  form holds the  *)
(* sessions and the current mode, isSubmitting, the mutation's isPending   *)
(* (isStarting), the quota store's isOverLimit, the dependencies of the    *)
(* completion effect at the render before, and the number of times         *)
(* onGenerate and startJob were called.  The tracked job is                *)
(* job.currentJobId and its task is read from the store.                   *)
(***************************************************************************)
MaxClicks == 2

\* String.prototype.trim on the three prompts.
trim(prompt) == IF prompt = " " THEN "" ELSE prompt

\* The configuration of the current mode.
config(f) ==
    [mode |-> f.currentMode,
     prompt |-> f.sessions[f.currentMode].prompt,
     sourceImage |-> f.sessions[f.currentMode].sourceImage]

isFormValid(c) ==
    IF c.mode = "image-to-video" THEN c.sourceImage ELSE trim(c.prompt) # ""

\* useGenerationJob's jobStatus for the tracked job id.
jobStatus(f, id, st) ==
    IF f.isStarting THEN "pending"
    ELSE IF id = NoId \/ id \notin DOMAIN st.tasks THEN "idle"
    ELSE CASE st.tasks[id].status = "COMPLETED" -> "completed"
           [] st.tasks[id].status = "FAILED" -> "failed"
           [] st.tasks[id].status = "PROCESSING" -> "processing"
           [] OTHER -> "pending"

isLoading(f, id, st) ==
    \/ f.isSubmitting
    \/ f.isStarting
    \/ jobStatus(f, id, st) \in {"pending", "processing"}

\* A change of mode only switches the mode; else the current mode's session
\* takes the new prompt and source image.
updateConfig(f, newConfig) ==
    IF newConfig.mode # f.currentMode
    THEN [f EXCEPT !.currentMode = newConfig.mode]
    ELSE [f EXCEPT !.sessions[f.currentMode] =
                       [prompt |-> newConfig.prompt,
                        sourceImage |-> newConfig.sourceImage]]

clearPrompt(f) == [f EXCEPT !.sessions[f.currentMode].prompt = ""]

\* handleGenerate: invalid configurations return; else the request is
\* submitted (isSubmitting, then startJob and the mutation pending).
handleGenerate(f) ==
    IF ~isFormValid(config(f)) THEN f
    ELSE [f EXCEPT !.isSubmitting = TRUE, !.isStarting = TRUE,
                   !.startJob = @ + 1]

handleSubmitWhileLoading(valid, loading, overLimit) ==
    ~(~valid \/ overLimit)
\* handleSubmit: whether onGenerate is called.
handleSubmit(valid, loading, overLimit) ==
    ~(~valid \/ loading \/ overLimit)

\* The Generate handler runs.
HandleSubmit ==
    LET go == handleSubmit(isFormValid(config(form)),
                           isLoading(form, job.currentJobId, Store),
                           form.isOverLimit)
        called == [form EXCEPT !.onGenerate = @ + 1]
        started == go /\ handleGenerate(called).startJob # form.startJob
    IN  /\ form.onGenerate < MaxClicks
        /\ form' = IF go THEN handleGenerate(called) ELSE form
        /\ job' = IF started THEN [job EXCEPT !.currentJobId = NoId] ELSE job
        /\ last' = [NoOp EXCEPT !.op = "handleSubmit",
                       !.ret = (IF go THEN {"onGenerate"} ELSE {})
                               \cup (IF started THEN {"startJob"} ELSE {})]
        /\ UNCHANGED <<tasks, lastSyncTime, selectedJobId, now, ticks, polls,
                       updates, delivered, replica, page, sse, health>>

\* The submission is answered: onSuccess tracks the job and adds its task,
\* the mutation settles and handleGenerate's finally runs.
MutationSuccess ==
    \E id \in MainIds, status \in TaskStatus :
        /\ form.isStarting
        /\ IsFresh(id)
        /\ CommitStore(addTask(Store, id, status, now))
        /\ job' = [job EXCEPT !.currentJobId = id]
        /\ form' = [form EXCEPT !.isStarting = FALSE, !.isSubmitting = FALSE]
        /\ last' = [NoOp EXCEPT !.op = "addTask", !.id = id]
        /\ UNCHANGED <<now, ticks, polls, updates, delivered, replica,
                       page, sse, health>>

\* The submission fails: the mutation settles with an error.
MutationError ==
    /\ form.isStarting
    /\ form' = [form EXCEPT !.isStarting = FALSE, !.isSubmitting = FALSE]
    /\ last' = [NoOp EXCEPT !.op = "onError"]
    /\ UNCHANGED <<tasks, lastSyncTime, selectedJobId, now, ticks, polls,
                   updates, delivered, replica, page, sse, job, health>>

\* setStats and setError of the quota store.
SetStats ==
    \E overLimit \in BOOLEAN :
        /\ overLimit # form.isOverLimit
        /\ form' = [form EXCEPT !.isOverLimit = overLimit]
        /\ last' = [NoOp EXCEPT !.op = "setStats"]
        /\ UNCHANGED <<tasks, lastSyncTime, selectedJobId, now, ticks, polls,
                       updates, delivered, replica, page, sse, job, health>>

\* handleModeChange, handlePromptChange and handleImageChange.
UpdateConfig ==
    \E newConfig \in
          {[config(form) EXCEPT !.mode = m] : m \in GenerationMode \ {form.currentMode}}
          \cup {[config(form) EXCEPT !.prompt = p] : p \in Prompts}
          \cup {[config(form) EXCEPT !.sourceImage = i] : i \in BOOLEAN} :
        /\ updateConfig(form, newConfig) # form
        /\ form' = updateConfig(form, newConfig)
        /\ last' = [NoOp EXCEPT !.op = "updateConfig"]
        /\ UNCHANGED <<tasks, lastSyncTime, selectedJobId, now, ticks, polls,
                       updates, delivered, replica, page, sse, job, health>>

\* jobStatus and clearPrompt (which changes with the mode) as a render
\* sees them.
FormDeps == <<jobStatus(form, job.currentJobId, Store), form.currentMode>>

FormEffectPending == FormDeps # form.deps

\* The completion effect runs when one of its dependencies changed.
FormEffect ==
    /\ FormEffectPending
    /\ form' = [(IF FormDeps[1] \in {"completed", "failed"}
                 THEN clearPrompt(form) ELSE form) EXCEPT !.deps = FormDeps]
    /\ last' = [NoOp EXCEPT !.op = "completionEffect"]
    /\ UNCHANGED <<tasks, lastSyncTime, selectedJobId, now, ticks, polls,
                   updates, delivered, replica, page, sse, job, health>>

\* A push update for the tracked job, stamped by the client's clock.
FormSyncTaskFromEvent ==
    \E u \in PushInputs({job.currentJobId} \ {NoId}) :
        /\ u.updatedAt = NoTime
        /\ Commit(syncTaskFromEvent(Store, u, now))
        /\ last' = [NoOp EXCEPT !.op = "push", !.id = u.jobId]
        /\ UNCHANGED <<now, ticks, polls, updates, delivered>>

\* An event is handled once the effects of the one before have run.
NextForm ==
    \/ FormEffect
    \/ ~FormEffectPending /\ HandleSubmit
    \/ ~FormEffectPending /\ MutationSuccess
    \/ ~FormEffectPending /\ MutationError
    \/ ~FormEffectPending /\ SetStats
    \/ ~FormEffectPending /\ UpdateConfig
    \/ ~FormEffectPending /\ FormSyncTaskFromEvent

SpecForm == Init /\ [][NextForm]_vars

C33_PromptClearedByGenerate ==
    [][(/\ last'.op = "handleSubmit"
        /\ "startJob" \in last'.ret
        /\ trim(form.sessions[form.currentMode].prompt) # "")
       => form'.sessions[form'.currentMode].prompt = ""]_vars

\* What holds of the prompt: the Generate handler leaves the sessions as
\* they are, and the completion effect, run with the job completed or
\* failed, empties the prompt of the mode current at that time.
PromptClearedAtCompletion ==
    [][/\ last'.op = "handleSubmit" => form'.sessions = form.sessions
       /\ (last'.op = "completionEffect"
           /\ jobStatus(form, job.currentJobId, Store) \in {"completed", "failed"})
          => form'.sessions[form.currentMode].prompt = ""]_vars

(***************************************************************************)
(* The push guards, each push update kept in last.u: one task, the clock,  *)
(* polls that fail, selection and reading.                                 *)
(***************************************************************************)
PushEvent ==
    \E u \in PushInputs(MainIds) :
        /\ Commit(syncTaskFromEvent(Store, u, now))
        /\ last' = [NoOp EXCEPT !.op = "push", !.id = u.jobId, !.u = u]
        /\ UNCHANGED <<now, ticks, polls, updates, delivered>>

NextPush ==
    \/ Tick
    \/ AddTask(MainIds)
    \/ PushEvent
    \/ SetSelectedJobId(MainIds)
    \/ MarkAsRead
    \/ SyncTasksStart
    \/ SyncTasksFailure

SpecPush == Init /\ [][NextPush]_vars

\* C34: a push update whose status, resultUrl and error are those of the
\* task's record is discarded, also when its serverTime is newer than the
\* stored updatedAt: the task's updatedAt, isRead and retryCount and
\* selectedJobId are unchanged.
C34_NoOpGuard ==
    [][(/\ last'.op = "push"
        /\ last'.u.jobId \in DOMAIN tasks
        /\ tasks[last'.u.jobId].status = last'.u.status
        /\ tasks[last'.u.jobId].resultUrl = last'.u.resultUrl
        /\ tasks[last'.u.jobId].error = last'.u.error)
       => /\ last'.u.jobId \in DOMAIN tasks'
          /\ tasks'[last'.u.jobId].updatedAt = tasks[last'.u.jobId].updatedAt
          /\ tasks'[last'.u.jobId].isRead = tasks[last'.u.jobId].isRead
          /\ tasks'[last'.u.jobId].retryCount = tasks[last'.u.jobId].retryCount
          /\ selectedJobId' = selectedJobId]_vars

\* A push with a newer serverTime and the record's status, resultUrl and
\* error was handled, the task unread, counted once and not selected.
C34_Witness ==
    /\ last.op = "push"
    /\ "A" \in DOMAIN tasks
    /\ last.u.updatedAt > tasks["A"].updatedAt
    /\ tasks["A"].status = last.u.status
    /\ tasks["A"].resultUrl = last.u.resultUrl
    /\ tasks["A"].error = last.u.error
    /\ tasks["A"].retryCount = 1
    /\ selectedJobId = NoId

\* C35: a push update that is applied (the task is known, the update is not
\* stale and changes status, resultUrl or error) sets retryCount to 0.
C35_AppliedPushResetsRetry ==
    [][(/\ last'.op = "push"
        /\ last'.u.jobId \in DOMAIN tasks
        /\ tasks[last'.u.jobId].updatedAt <= parseServerTime(last'.u.updatedAt, now)
        /\ \/ tasks[last'.u.jobId].status # last'.u.status
           \/ tasks[last'.u.jobId].resultUrl # last'.u.resultUrl
           \/ tasks[last'.u.jobId].error # last'.u.error)
       => tasks'[last'.u.jobId].retryCount = 0]_vars

\* What holds of the counter: a push update leaves it as it is.
PushKeepsRetryCount ==
    [][(last'.op = "push" /\ last'.u.jobId \in DOMAIN tasks)
       => /\ last'.u.jobId \in DOMAIN tasks'
          /\ tasks'[last'.u.jobId].retryCount = tasks[last'.u.jobId].retryCount]_vars

(***************************************************************************)
(* The bookkeeping actions on two tasks, with the push updates that make   *)
(* tasks terminal, unread and selected.                                    *)
(***************************************************************************)
NextBook ==
    \/ AddTask(Ids)
    \/ SyncTaskFromEvent(Ids)
    \/ SetSelectedJobId(Ids)
    \/ MarkAsRead
    \/ MarkAllAsRead
    \/ ClearAllTasks

SpecBook == Init /\ [][NextBook]_vars

\* C36: select changes only selectedJobId; markAsRead of an existing task
\* changes only that task's isRead, to true; markAllAsRead sets isRead on
\* every terminal task and changes nothing else, and the unread count is 0
\* afterwards; clearAllTasks empties the task map and leaves selectedJobId
\* as it is; none of the four changes a task's status or updatedAt.
C36_BookkeepingFrame ==
    [][/\ last'.op = "select" =>
              /\ selectedJobId' = last'.id
              /\ tasks' = tasks
              /\ lastSyncTime' = lastSyncTime
       /\ last'.op = "markAsRead" =>
              /\ DOMAIN tasks' = DOMAIN tasks
              /\ tasks'[last'.id] = [tasks[last'.id] EXCEPT !.isRead = TRUE]
              /\ \A id \in DOMAIN tasks \ {last'.id} : tasks'[id] = tasks[id]
              /\ selectedJobId' = selectedJobId
              /\ lastSyncTime' = lastSyncTime
       /\ last'.op = "markAllAsRead" =>
              /\ DOMAIN tasks' = DOMAIN tasks
              /\ \A id \in DOMAIN tasks :
                    tasks'[id] = IF tasks[id].status \in {"COMPLETED", "FAILED"}
                                 THEN [tasks[id] EXCEPT !.isRead = TRUE]
                                 ELSE tasks[id]
              /\ useUnreadCount(tasks') = 0
              /\ selectedJobId' = selectedJobId
              /\ lastSyncTime' = lastSyncTime
       /\ last'.op = "clearAllTasks" =>
              /\ DOMAIN tasks' = {}
              /\ selectedJobId' = selectedJobId
              /\ lastSyncTime' = lastSyncTime
       /\ last'.op \in {"select", "markAsRead", "markAllAsRead", "clearAllTasks"} =>
              \A id \in DOMAIN tasks' :
                  /\ id \in DOMAIN tasks
                  /\ tasks'[id].status = tasks[id].status
                  /\ tasks'[id].updatedAt = tasks[id].updatedAt]_vars

\* markAllAsRead ran with A completed and selected and B back to PENDING
\* and unread: A is read, B is as it was.
C36_Witness ==
    /\ last.op = "markAllAsRead"
    /\ DOMAIN tasks = {"A", "B"}
    /\ tasks["A"].status = "COMPLETED"
    /\ tasks["A"].isRead
    /\ selectedJobId = "A"
    /\ tasks["B"].status = "PENDING"
    /\ ~tasks["B"].isRead

\* C37: when a poll fails, a task of its batch that is COMPLETED or FAILED
\* by then keeps its status, also when its retryCount reaches the ceiling.
C37_CeilingKeepsTerminal ==
    [][last'.op = "pollFail" =>
          \A id \in last'.req \cap DOMAIN tasks :
              tasks[id].status \in {"COMPLETED", "FAILED"} =>
                  /\ id \in DOMAIN tasks'
                  /\ tasks'[id].status = tasks[id].status]_vars

\* What holds below the ceiling: a failed poll that leaves a task's
\* retryCount under 3 leaves its status as it is.
FailureBelowCeilingKeepsStatus ==
    [][last'.op = "pollFail" =>
          \A id \in last'.req \cap DOMAIN tasks :
              tasks[id].retryCount + 1 < MAX_RETRY_COUNT =>
                  tasks'[id].status = tasks[id].status]_vars

(***************************************************************************)
(* Several polls in flight: syncTasks has no guard against a poll already  *)
(* awaiting its response, so the interval, the focus listener and the      *)
(* post-submission timer each start one.                                   *)
(***************************************************************************)
MaxInFlight == 2
MaxFailures == 4

\* syncTasks up to its await, whatever is already in flight.
ConcurrentSyncTasksStart ==
    /\ pendingIds(tasks, now) # {}
    /\ InFlight < MaxInFlight
    /\ polls' = [polls EXCEPT ![pendingIds(tasks, now)] = @ + 1]
    /\ last' = [NoOp EXCEPT !.op = "pollStart", !.req = pendingIds(tasks, now)]
    /\ UNCHANGED <<tasks, lastSyncTime, selectedJobId, now, ticks, updates, delivered>>
    /\ UNCHANGED <<replica, shell>>

\* The catch branch of one of the polls in flight.
ConcurrentSyncTasksFailure ==
    \E req \in Requests :
        /\ polls[req] > 0
        /\ \A id \in req \cap DOMAIN tasks : tasks[id].retryCount < MaxFailures
        /\ Commit(syncTasksFailure(Store, req))
        /\ last' = [NoOp EXCEPT !.op = "pollFail", !.req = req,
                                !.nonterm = WereNonTerminal(req)]
        /\ polls' = [polls EXCEPT ![req] = @ - 1]
        /\ UNCHANGED <<now, ticks, updates, delivered>>

NextRetry ==
    \/ AddTask(MainIds)
    \/ PushEvent
    \/ ConcurrentSyncTasksStart
    \/ ConcurrentSyncTasksFailure

SpecRetry == Init /\ [][NextRetry]_vars

\* C38: every task's retryCount is between 0 and 3, and a task whose
\* retryCount is 3 is FAILED.
C38_RetryCounterBound ==
    \A id \in DOMAIN tasks :
        /\ tasks[id].retryCount \in 0..MAX_RETRY_COUNT
        /\ tasks[id].retryCount = MAX_RETRY_COUNT => tasks[id].status = "FAILED"

\* The first half alone: no retryCount is above 3.
RetryCountAtMostCeiling ==
    \A id \in DOMAIN tasks : tasks[id].retryCount <= MAX_RETRY_COUNT

\* The second half, polls failing one after another and no push update
\* between: a task whose retryCount is 3 is FAILED.
CeilingFailsWithoutPush ==
    [][last'.op = "pollFail" =>
          \A id \in last'.req \cap DOMAIN tasks :
              tasks'[id].retryCount >= MAX_RETRY_COUNT
                  => tasks'[id].status = "FAILED"]_vars

\* C39: a write made by a view that has a replication signal waiting (its
\* copy is older than the snapshot), for the tasks the write itself leaves
\* as they are in that view's copy: the snapshot it persists has no task
\* PENDING or PROCESSING that was COMPLETED or FAILED in the snapshot before,
\* and no task that some view evicted or cleared and that the snapshot
\* before did not have.
C39_NoLostUpdate ==
    [][\A v \in Views :
          (/\ last'.view = v
           /\ last'.op \in {"addTask", "push", "clearOldTasks", "clearAllTasks"}
           /\ v \in signals)
          => \A old \in storage, new \in storage' :
                \A id \in DOMAIN new.tasks :
                    (/\ id \in DOMAIN views[v].tasks
                     /\ views'[v].tasks[id] = views[v].tasks[id])
                    => /\ (id \in DOMAIN old.tasks
                           /\ old.tasks[id].status \in {"COMPLETED", "FAILED"})
                          => new.tasks[id].status \notin {"PENDING", "PROCESSING"}
                       /\ ~(id \in gone /\ id \notin DOMAIN old.tasks)]_vars

\* The second half alone: no such write brings back a task that was
\* evicted or cleared.
StaleWriteBringsNothingBack ==
    [][\A v \in Views :
          (/\ last'.view = v
           /\ last'.op \in {"addTask", "push", "clearOldTasks", "clearAllTasks"}
           /\ v \in signals)
          => \A old \in storage, new \in storage' :
                \A id \in DOMAIN new.tasks :
                    (/\ id \in DOMAIN views[v].tasks
                     /\ views'[v].tasks[id] = views[v].tasks[id])
                    => ~(id \in gone /\ id \notin DOMAIN old.tasks)]_vars

(***************************************************************************)
(* HealthCheckManager.  health holds the pathname, the system store's      *)
(* isHealthy, the refs retryCount and timeoutId (the id of the timer set   *)
(* last, 0 for null), the check timers that are pending (id :> delay), the *)
(* number of timers made so far, the number of checks awaiting their       *)
(* response, and streak, the number of checks that failed since the last   *)
(* one that succeeded.  A check answers at any time within its 3s timeout, *)
(* a timer fires at any time, and the route changes at any time (the       *)
(* user's navigation or handleFailure's router.push).                      *)
(***************************************************************************)
MaxHealthTimers == 6
MaxChecksInFlight == 2
HealthyDelay == 5000
MaxDelay == 60000
Pathnames == {"/home", "/gallery"}

Min(a, b) == IF a <= b THEN a ELSE b

\* clearTimeout of the timer the ref names (a timer that fired, or none, is
\* no timer).
clearTimeout(h) ==
    [h EXCEPT !.pending = [t \in DOMAIN h.pending \ {h.timeoutId} |-> h.pending[t]]]

\* A variant that sets the new timer without clearing the one before.
scheduleNextCheckKeep(h, delay) ==
    [h EXCEPT !.timers = @ + 1,
              !.timeoutId = h.timers + 1,
              !.pending = h.pending @@ ((h.timers + 1) :> delay)]

scheduleNextCheck(h, delay) ==
    LET c == clearTimeout(h)
    IN [c EXCEPT !.timers = @ + 1,
                 !.timeoutId = c.timers + 1,
                 !.pending = c.pending @@ ((c.timers + 1) :> delay)]

\* checkHealth up to its await.
checkHealth(h) == [h EXCEPT !.inFlight = @ + 1]

\* checkHealth after a response that is ok.
checkHealthOk(h) ==
    scheduleNextCheck([h EXCEPT !.inFlight = @ - 1, !.isHealthy = TRUE,
                                !.retryCount = 0, !.streak = 0],
                      HealthyDelay)

handleFailure(h) ==
    LET delay == Min(5000 * 2 ^ h.retryCount, MaxDelay)
    IN scheduleNextCheck([h EXCEPT !.isHealthy = FALSE,
                                   !.retryCount = @ + 1, !.streak = @ + 1],
                         delay)

\* The effect's first run.
HealthMount ==
    /\ ~health.mounted
    /\ health' = checkHealth([health EXCEPT !.mounted = TRUE])
    /\ last' = [NoOp EXCEPT !.op = "healthMount"]
    /\ UNCHANGED <<tasks, lastSyncTime, selectedJobId, now, ticks, polls,
                   updates, delivered, replica, page, sse, job, form>>

CheckSucceeds ==
    /\ health.inFlight > 0
    /\ health.timers < MaxHealthTimers
    /\ health' = checkHealthOk(health)
    /\ last' = [NoOp EXCEPT !.op = "healthOk"]
    /\ UNCHANGED <<tasks, lastSyncTime, selectedJobId, now, ticks, polls,
                   updates, delivered, replica, page, sse, job, form>>

\* The response is not ok, the fetch fails or it is aborted.
CheckFails ==
    /\ health.inFlight > 0
    /\ health.timers < MaxHealthTimers
    /\ health' = handleFailure([health EXCEPT !.inFlight = @ - 1])
    /\ last' = [NoOp EXCEPT !.op = "healthFail"]
    /\ UNCHANGED <<tasks, lastSyncTime, selectedJobId, now, ticks, polls,
                   updates, delivered, replica, page, sse, job, form>>

\* A pending timer fires and runs checkHealth.
HealthTimerFires ==
    \E t \in DOMAIN health.pending :
        /\ health.inFlight < MaxChecksInFlight
        /\ health' = checkHealth(
               [health EXCEPT !.pending = [x \in DOMAIN health.pending \ {t} |->
                                              health.pending[x]]])
        /\ last' = [NoOp EXCEPT !.op = "healthTimer"]
        /\ UNCHANGED <<tasks, lastSyncTime, selectedJobId, now, ticks, polls,
                       updates, delivered, replica, page, sse, job, form>>

\* The pathname changes: the effect's cleanup, then the effect again.
RouteChange ==
    \E pathname \in Pathnames \ {health.pathname} :
        /\ health.mounted
        /\ health.inFlight < MaxChecksInFlight
        /\ health' = checkHealth([clearTimeout(health) EXCEPT !.pathname = pathname])
        /\ last' = [NoOp EXCEPT !.op = "routeChange"]
        /\ UNCHANGED <<tasks, lastSyncTime, selectedJobId, now, ticks, polls,
                       updates, delivered, replica, page, sse, job, form>>

NextHealth ==
    \/ HealthMount
    \/ CheckSucceeds
    \/ CheckFails
    \/ HealthTimerFires
    \/ RouteChange

SpecHealth == Init /\ [][NextHealth]_vars

PollTimerAsRendered ==
    /\ page.intervals <= 1
    /\ page.pollIntervalRef <=> page.intervals = 1
    /\ ~page.hasHydrated => page.intervals = 0
    /\ page.hasHydrated /\ ~RenderPending =>
          (page.intervals = 1 <=> page.deps[2] > 0)

\* C22: a storage event for 'task-storage' with a new value leaves the
\* view's tasks, selectedJobId and lastSyncTime equal to the persisted
\* snapshot; an event for another key, or without a new value, changes
\* neither the view nor the snapshot.
C22_ReloadSnapshot ==
    [][last'.op \in {"rehydrate", "storageEvent"} =>
          IF last'.key = "task-storage" /\ last'.hasNewValue
          THEN \A snapshot \in storage : views'[last'.view] = snapshot
          ELSE views' = views /\ storage' = storage]_vars

\* A view reloaded the snapshot and a task it held before is not in it.
C22_Witness ==
    /\ last.op = "rehydrate"
    /\ \E snapshot \in storage : views[last.view] = snapshot
    /\ last.req \ DOMAIN views[last.view].tasks # {}
====
